---------------------------- MODULE Spec2Model ----------------------------
(***************************************************************************)
(* Model of the query-time retrieval pipeline of the GDPR guidelines app:  *)
(* find_overlap and the context stitching loop of main() (src/app.py),     *)
(* search_and_generate_response (src/app.py), SupabaseManager              *)
(* (src/src/database.py) and LLMManager (src/src/llm.py).                  *)
(*                                                                         *)
(* A text is a sequence of character codes (natural numbers).              *)
(***************************************************************************)
EXTENDS Integers, Sequences, FiniteSets, TLC

VARIABLES
    \* find_overlap(text1, text2, min_length) and its return value
    text1, text2, min_length, overlap, fo_pc,
    \* the context expander of one displayed passage (src/app.py:262-295):
    \* the passage `chunk`, its context_chunks as they arrived, the list
    \* combined_text, and the stored document the chunks were cut from
    chunk, context_chunks, combined_text, st_pc, doc,
    \* one search request of main() (src/app.py:197-301):
    pc,                 \* where the request is
    query_history,      \* st.session_state.query_history
    submitted,          \* every query the search button was pressed with, in order
    query,              \* the submitted query
    chunk_threshold,    \* the slider value, in hundredths
    similar_summaries,  \* result of search_similar_summaries
    similar_chunks,     \* result of search_similar_chunks
    filtered_chunks,    \* the list built at line 111
    metadata,           \* the list built at lines 114-123
    guideline_titles,   \* the dict built at lines 115-123
    response,           \* the text returned by generate_response
    error,              \* what was raised, "" when nothing was
    chunk_rpc,          \* the match_chunks_with_context calls sent to the store
    llm_calls,          \* the chat.completions calls sent to the model
    log,                \* the steps of the request, in order
    displayed           \* the passages rendered at lines 233-297

fo_vars == <<text1, text2, min_length, overlap, fo_pc>>
st_vars == <<chunk, context_chunks, combined_text, st_pc, doc>>
rq_vars == <<pc, query_history, submitted, query, chunk_threshold, similar_summaries,
             similar_chunks, filtered_chunks, metadata, guideline_titles,
             response, error, chunk_rpc, llm_calls, log, displayed>>
vars == <<fo_vars, st_vars, rq_vars>>

-----------------------------------------------------------------------------
(* Bounds of the find_overlap inputs *)
MaxStrLen == 3
MaxMinLength == 3
Alphabet == {97, 98}

Strings == UNION {[1..n -> Alphabet] : n \in 0..MaxStrLen}

Min(a, b) == IF a <= b THEN a ELSE b

-----------------------------------------------------------------------------
(* Python slices used by the code *)

\* text[-n:] : the last n characters; for n = 0 the index -0 is 0 and the
\* slice is the whole text; for n < 0 the index is positive
SliceLast(text, n) ==
    IF n = 0 THEN text
    ELSE IF n < 0 THEN SubSeq(text, Min(-n, Len(text)) + 1, Len(text))
    ELSE SubSeq(text, Len(text) - Min(n, Len(text)) + 1, Len(text))

\* text[:n] : the first n characters; for n < 0 all but the last -n
SliceFirst(text, n) ==
    IF n < 0 THEN SubSeq(text, 1, Len(text) - Min(-n, Len(text)))
    ELSE SubSeq(text, 1, Min(n, Len(text)))

\* text[n:] for n >= 0
SliceFrom(text, n) == SubSeq(text, Min(n, Len(text)) + 1, Len(text))

\* text[:-n] for n >= 1
SliceDropLast(text, n) == SubSeq(text, 1, Len(text) - Min(n, Len(text)))

-----------------------------------------------------------------------------
(* find_overlap, src/app.py:303-309 *)

\* the loop "for length in range(start, min_length - 1, -1)" from `length` down,
\* stopping before stop (exclusive)
RECURSIVE OverlapLoop(_, _, _, _)
OverlapLoop(t1, t2, length, stop) ==
    IF length <= stop THEN <<>>
    ELSE IF SliceLast(t1, length) = SliceFirst(t2, length)
         THEN SliceFirst(t2, length)
         ELSE OverlapLoop(t1, t2, length - 1, stop)

\* a loop that stops one length early
FindOverlapStopsEarly(t1, t2, k) ==
    OverlapLoop(t1, t2, Min(Len(t1), Len(t2)), k)

FindOverlap(t1, t2, k) ==
    OverlapLoop(t1, t2, Min(Len(t1), Len(t2)), k - 1)

-----------------------------------------------------------------------------
(* The context stitching loop of main(), src/app.py:263-295 *)

\* default of find_overlap's min_length parameter, used by both calls
DefaultMinLength == 50

\* one "<p style='font-size: 1em; margin: 10px 0;'>{text}</p>" element
Paragraph(text) ==
    [tag |-> "p", style |-> "font-size: 1em; margin: 10px 0;", text |-> text]

\* insert ctx into a list sorted by chunk_id, behind the entries whose
\* chunk_id is not larger (sorted() is stable)
RECURSIVE InsertByChunkId(_, _)
InsertByChunkId(sorted, ctx) ==
    IF sorted = <<>> THEN <<ctx>>
    ELSE IF sorted[Len(sorted)].chunk_id <= ctx.chunk_id
         THEN Append(sorted, ctx)
         ELSE Append(InsertByChunkId(SubSeq(sorted, 1, Len(sorted) - 1), ctx),
                     sorted[Len(sorted)])

RECURSIVE SortPrefix(_, _)
SortPrefix(contexts, n) ==
    IF n = 0 THEN <<>>
    ELSE InsertByChunkId(SortPrefix(contexts, n - 1), contexts[n])

\* the contexts left in arrival order
ContextsUnsorted(contexts) == contexts

\* sorted(context_chunks, key=lambda x: x['chunk_id'])
SortedContexts(contexts) == SortPrefix(contexts, Len(contexts))

\* lines 280-284: strip the overlap with the previous window's content
StripLeading(sorted, i, current_text) ==
    IF i > 1
    THEN LET ov == FindOverlap(sorted[i - 1].content, current_text, DefaultMinLength)
         IN IF ov # <<>> THEN SliceFrom(current_text, Len(ov)) ELSE current_text
    ELSE current_text

\* lines 287-291: strip the overlap of the (already stripped) text with the
\* next window's content
StripTrailing(sorted, i, current_text) ==
    IF i < Len(sorted)
    THEN LET ov == FindOverlap(current_text, sorted[i + 1].content, DefaultMinLength)
         IN IF ov # <<>> THEN SliceDropLast(current_text, Len(ov)) ELSE current_text
    ELSE current_text

\* a loop body without the branch for the matched chunk
WindowTextStripsAll(sorted, i, chunk_id) ==
    StripTrailing(sorted, i, StripLeading(sorted, i, sorted[i].content))

\* lines 273-293: the text appended for the i-th sorted context
WindowText(sorted, i, chunk_id) ==
    IF sorted[i].chunk_id = chunk_id
    THEN sorted[i].content
    ELSE StripTrailing(sorted, i, StripLeading(sorted, i, sorted[i].content))

\* lines 272-293 over a list already in order
StitchSorted(sorted, chunk_id) ==
    [i \in 1..Len(sorted) |-> Paragraph(WindowText(sorted, i, chunk_id))]

\* lines 269-293: the list combined_text
Stitch(contexts, chunk_id) == StitchSorted(SortedContexts(contexts), chunk_id)

-----------------------------------------------------------------------------
(* Specification of the stitching loop on bounded inputs: context lists drawn
   from the chunks of one stored document *)

NumChunks == 3
MaxContexts == 3
WinLen == 110

\* how the stored document was cut: the distance between the starts of
\* consecutive chunks, and the period of its text (a period above the
\* document's length: no character sequence repeats)
Documents ==
    { [stride |-> 58, period |-> 100000, winlen |-> WinLen, offset |-> 0],
      [stride |-> 58, period |-> 7, winlen |-> WinLen, offset |-> 0],
      [stride |-> 70, period |-> 100000, winlen |-> WinLen, offset |-> 0] }

DocChar(d, pos) == (d.offset + pos) % d.period

\* chunk k of document d: winlen characters from position (k-1) * stride + 1
ChunkContent(d, k) ==
    [j \in 1..d.winlen |-> DocChar(d, (k - 1) * d.stride + j)]

ContextChunk(d, k) == [chunk_id |-> k, content |-> ChunkContent(d, k)]

\* sequences of distinct chunk ids, at most MaxContexts long
IdLists ==
    UNION { {s \in [1..n -> 1..NumChunks] :
                \A i, j \in 1..n : i # j => s[i] # s[j]} : n \in 0..MaxContexts }

OverlapIdle ==
    /\ text1 = <<>>
    /\ text2 = <<>>
    /\ min_length = DefaultMinLength
    /\ overlap = <<>>
    /\ fo_pc = "idle"

\* the session before any search: lines 136-139
RequestIdle ==
    /\ pc = "idle"
    /\ query_history = <<>>
    /\ submitted = <<>>
    /\ query = 0
    /\ chunk_threshold = 0
    /\ similar_summaries = <<>>
    /\ similar_chunks = <<>>
    /\ filtered_chunks = <<>>
    /\ metadata = <<>>
    /\ guideline_titles = <<>>
    /\ response = ""
    /\ error = ""
    /\ chunk_rpc = <<>>
    /\ llm_calls = <<>>
    /\ log = <<>>
    /\ displayed = <<>>

StitchIdle ==
    /\ chunk = [id |-> 0, content |-> <<>>]
    /\ context_chunks = <<>>
    /\ combined_text = <<>>
    /\ st_pc = "idle"
    /\ doc = [stride |-> 0, period |-> 1, winlen |-> 0, offset |-> 0]

InitStitch ==
    /\ doc \in Documents
    /\ \E k \in 1..NumChunks :
          chunk = [id |-> k, content |-> ChunkContent(doc, k)]
    /\ \E ids \in IdLists :
          context_chunks = [i \in 1..Len(ids) |-> ContextChunk(doc, ids[i])]
    /\ combined_text = <<>>
    /\ st_pc = "expander"
    /\ OverlapIdle
    /\ RequestIdle

\* lines 263-266: no context_chunks
ShowNoContext ==
    /\ st_pc = "expander"
    /\ context_chunks = <<>>
    /\ st_pc' = "no_context"
    /\ UNCHANGED <<chunk, context_chunks, combined_text, doc>>
    /\ UNCHANGED <<fo_vars, rq_vars>>

\* lines 269-295
ShowContext ==
    /\ st_pc = "expander"
    /\ context_chunks # <<>>
    /\ combined_text' = Stitch(context_chunks, chunk.id)
    /\ st_pc' = "shown"
    /\ UNCHANGED <<chunk, context_chunks, doc>>
    /\ UNCHANGED <<fo_vars, rq_vars>>

NextStitch == ShowNoContext \/ ShowContext

SpecStitch == InitStitch /\ [][NextStitch]_vars

-----------------------------------------------------------------------------
(* Result ranking and rendering, src/app.py:230-297 *)

\* st.session_state.query_history keeps at most this many queries (line 200)
HistoryCap == 5
\* sorted_chunks[:5] (line 233)
TopN == 5
\* defaults of search_similar_summaries' limit and search_similar_chunks'
\* context_size, the values every call of the app uses
SummaryLimit == 5
ContextSize == 1
\* the sliders' initial values (lines 170 and 179), in hundredths
DefaultSummaryThreshold == 40
DefaultChunkThreshold == 45

Has(record, field) == field \in DOMAIN record

\* insert c into a list sorted by similarity descending, behind the entries
\* whose similarity is not smaller (sorted(..., reverse=True) is stable)
\* an insertion that puts c in front of the entries of equal similarity
RECURSIVE InsertBySimilarityBeforeTies(_, _)
InsertBySimilarityBeforeTies(sorted, c) ==
    IF sorted = <<>> THEN <<c>>
    ELSE IF sorted[Len(sorted)].similarity > c.similarity
         THEN Append(sorted, c)
         ELSE Append(InsertBySimilarityBeforeTies(SubSeq(sorted, 1, Len(sorted) - 1), c),
                     sorted[Len(sorted)])

RECURSIVE InsertBySimilarity(_, _)
InsertBySimilarity(sorted, c) ==
    IF sorted = <<>> THEN <<c>>
    ELSE IF sorted[Len(sorted)].similarity >= c.similarity
         THEN Append(sorted, c)
         ELSE Append(InsertBySimilarity(SubSeq(sorted, 1, Len(sorted) - 1), c),
                     sorted[Len(sorted)])

RECURSIVE SortBySimilarityPrefix(_, _)
SortBySimilarityPrefix(chunks, n) ==
    IF n = 0 THEN <<>>
    ELSE InsertBySimilarity(SortBySimilarityPrefix(chunks, n - 1), chunks[n])

\* a descending sort made by reversing an ascending one: equal similarities
\* come out in reverse retrieval order
SortedChunksTiesReversed(chunks) ==
    LET n == Len(chunks)
        reversed == [i \in 1..n |-> chunks[n + 1 - i]]
    IN SortBySimilarityPrefix(reversed, n)

\* line 230: sorted(context_chunks, key=lambda x: x['similarity'], reverse=True)
SortedChunks(chunks) == SortBySimilarityPrefix(chunks, Len(chunks))

\* line 237: guideline_titles.get(chunk['guideline_id'], "Unknown Guideline")
TitleFor(titles, guideline_id) ==
    IF guideline_id \in DOMAIN titles THEN titles[guideline_id]
    ELSE "Unknown Guideline"

\* what the expander of a passage shows
NoContext == [kind |-> "no_context", combined_text |-> <<>>]
ContextRaised == [kind |-> "KeyError", combined_text |-> <<>>]
ContextShown(paragraphs) == [kind |-> "context", combined_text |-> paragraphs]

\* lines 240-251: the passage block
Passage(i, titles, c, context) ==
    [rank |-> i, title |-> TitleFor(titles, c.guideline_id),
     similarity |-> c.similarity, content |-> c.content, context |-> context]

\* a loop that reads chunk['context_chunks'] without a default and takes an
\* empty list for an error
RECURSIVE RenderUpToRaisesOnNoContext(_, _, _, _)
RenderUpToRaisesOnNoContext(top, n, titles, threshold) ==
    IF n = 0 THEN [shown |-> <<>>, raised |-> FALSE]
    ELSE LET before == RenderUpToRaisesOnNoContext(top, n - 1, titles, threshold)
             c == top[n]
         IN IF before.raised THEN before
            ELSE IF c.similarity < threshold THEN before
            ELSE IF ~Has(c, "context_chunks") \/ c.context_chunks = <<>> \/ ~Has(c, "id")
                 THEN [shown |-> Append(before.shown, Passage(n, titles, c, ContextRaised)),
                       raised |-> TRUE]
            ELSE [shown |-> Append(before.shown,
                                   Passage(n, titles, c,
                                           ContextShown(Stitch(c.context_chunks, c.id)))),
                  raised |-> FALSE]

\* lines 233-297 for the first n of the top chunks: the passages shown, and
\* whether the loop was left by an exception
RECURSIVE RenderUpTo(_, _, _, _)
RenderUpTo(top, n, titles, threshold) ==
    IF n = 0 THEN [shown |-> <<>>, raised |-> FALSE]
    ELSE LET before == RenderUpTo(top, n - 1, titles, threshold)
             c == top[n]
             contexts == IF Has(c, "context_chunks") THEN c.context_chunks ELSE <<>>
         IN IF before.raised THEN before
            ELSE IF c.similarity < threshold THEN before
            ELSE IF contexts = <<>>
                 THEN [shown |-> Append(before.shown, Passage(n, titles, c, NoContext)),
                       raised |-> FALSE]
            ELSE IF ~Has(c, "id")
                 THEN [shown |-> Append(before.shown, Passage(n, titles, c, ContextRaised)),
                       raised |-> TRUE]
            ELSE [shown |-> Append(before.shown,
                                   Passage(n, titles, c, ContextShown(Stitch(contexts, c.id)))),
                  raised |-> FALSE]

\* a rendering that truncates to the first five matches before sorting them
RenderPassagesTruncatesFirst(chunks, titles, threshold) ==
    LET top == SortedChunks(SubSeq(chunks, 1, Min(TopN, Len(chunks))))
    IN RenderUpTo(top, Len(top), titles, threshold)

\* lines 230-297
RenderPassages(chunks, titles, threshold) ==
    LET sorted_chunks == SortedChunks(chunks)
        top == SubSeq(sorted_chunks, 1, Min(TopN, Len(sorted_chunks)))
    IN RenderUpTo(top, Len(top), titles, threshold)

-----------------------------------------------------------------------------
(* search_and_generate_response, src/app.py:84-132, with
   SupabaseManager (src/src/database.py) and LLMManager (src/src/llm.py) *)

\* a table built from every second match only
GuidelineMatchesTableDropsFirst(guideline_matches) ==
    [i \in 1..(Len(guideline_matches) - 1) |->
        [id |-> guideline_matches[i + 1].id,
         similarity |-> guideline_matches[i + 1].similarity]]

\* database.py:47-50
GuidelineMatchesTable(guideline_matches) ==
    [i \in 1..Len(guideline_matches) |->
        [id |-> guideline_matches[i].id,
         similarity |-> guideline_matches[i].similarity]]

\* a filter that drops the chunks whose similarity equals the threshold
FilterChunksStrict(chunks, threshold) ==
    SelectSeq(chunks, LAMBDA c : c.similarity > threshold)

\* app.py:111
FilterChunks(chunks, threshold) ==
    SelectSeq(chunks, LAMBDA c : c.similarity >= threshold)

\* app.py:111 raises KeyError when a chunk has no 'similarity'
FilterRaises(chunks) == \E i \in 1..Len(chunks) : ~Has(chunks[i], "similarity")

\* database.py:88-93: the row with the summary's similarity added
MetadataOf(row, similarity) ==
    [f \in DOMAIN row \cup {"similarity"} |->
        IF f = "similarity" THEN similarity ELSE row[f]]

\* llm.py:77-78 raises KeyError when a chunk has no 'content'
BuildContextRaises(chunks) == \E i \in 1..Len(chunks) : ~Has(chunks[i], "content")

\* llm.py:65-80: one entry per metadata, then one section per chunk
BuildContext(chunks, meta) ==
    [guidelines |-> [i \in 1..Len(meta) |->
                        [title |-> meta[i].title, version |-> meta[i].version,
                         adopted_date |-> IF Has(meta[i], "adopted_date")
                                          THEN meta[i].adopted_date ELSE "N/A"]],
     sections |-> [i \in 1..Len(chunks) |-> chunks[i].content]]

-----------------------------------------------------------------------------
(* The store behind SupabaseManager: the guidelines table and the two
   similarity functions, as the specification describes them *)

NumQueries == 1
MaxSummaries == 2
MaxMatches == 2

\* the stored guidelines, and for each stored chunk (by id) its guideline
DocTitles == <<"Guidelines A", "Guidelines B", "Guidelines C">>
CorpusGuideline == <<1, 1, 2, 3>>
Docs == 1..Len(DocTitles)
CorpusChunkIds == 1..Len(CorpusGuideline)
GuidelineOf(c) == CorpusGuideline[c]

\* similarities the store reports, in hundredths
SummarySims == {80}
ChunkSims == {30, 45, 90}
ChunkThresholds == {DefaultChunkThreshold}

\* the stored chunks are short: 4 characters, 3 apart
CorpusDoc(g) == [stride |-> 3, period |-> 100000, winlen |-> 4, offset |-> 100 * g]
PositionOf(c) == Cardinality({k \in CorpusChunkIds : GuidelineOf(k) = GuidelineOf(c) /\ k <= c})
CorpusContent(c) == ChunkContent(CorpusDoc(GuidelineOf(c)), PositionOf(c))

\* a row of the guidelines table
GuidelineRow(d) ==
    [title |-> DocTitles[d], version |-> "1.0", adopted_date |-> "2020-01-01",
     document_type |-> "Guidelines", summary |-> "summary"]

\* match_guidelines: at most match_count documents with similarity >=
\* match_threshold, best first
MatchGuidelines(match_threshold, match_count) ==
    UNION { { [i \in 1..n |-> [id |-> ids[i], similarity |-> sims[i]]] :
                ids \in {s \in [1..n -> Docs] :
                            \A i, j \in 1..n : i # j => s[i] # s[j]},
                sims \in {s \in [1..n -> {x \in SummarySims : x >= match_threshold}] :
                            \A i, j \in 1..n : i < j => s[i] >= s[j]} } :
            n \in 0..Min(match_count, MaxSummaries) }

\* the context_size neighbours on each side of chunk c in its document, and
\* c itself; the store does not promise an order, here the last comes first
ContextOf(c, context_size) ==
    LET ids == {k \in CorpusChunkIds :
                    /\ GuidelineOf(k) = GuidelineOf(c)
                    /\ k - c <= context_size
                    /\ c - k <= context_size}
        lo == CHOOSE k \in ids : \A m \in ids : k <= m
        n == Cardinality(ids)
    IN [i \in 1..n |->
          LET k == lo + n - i
          IN [chunk_id |-> k, content |-> CorpusContent(k)]]

StoreMatch(c, s, context_size) ==
    [id |-> c, guideline_id |-> GuidelineOf(c), content |-> CorpusContent(c),
     similarity |-> s, context_chunks |-> ContextOf(c, context_size)]

\* what can be wrong with one record of a response
AnomalyKinds ==
    {"no id", "no similarity", "no content", "no context_chunks", "empty context_chunks"}

Without(record, field) == [f \in DOMAIN record \ {field} |-> record[f]]

Anomalous(m, kind) ==
    CASE kind = "no id" -> Without(m, "id")
      [] kind = "no similarity" -> Without(m, "similarity")
      [] kind = "no content" -> Without(m, "content")
      [] kind = "no context_chunks" -> Without(m, "context_chunks")
      [] kind = "empty context_chunks" -> [m EXCEPT !.context_chunks = <<>>]
      [] OTHER -> m

\* match_chunks_with_context: matches among the chunks of the documents in
\* guideline_matches only; the threshold is advisory; at most one record of a
\* response is anomalous
MatchChunksWithContext(guideline_matches, threshold, context_size) ==
    LET scope == {guideline_matches[i].id : i \in 1..Len(guideline_matches)}
        inscope == {c \in CorpusChunkIds : GuidelineOf(c) \in scope}
    IN UNION { { [i \in 1..n |->
                    IF i = bad.at
                    THEN Anomalous(StoreMatch(ids[i], sims[i], context_size), bad.kind)
                    ELSE StoreMatch(ids[i], sims[i], context_size)] :
                 ids \in {s \in [1..n -> inscope] :
                            \A i, j \in 1..n : i < j => s[i] < s[j]},
                 sims \in [1..n -> ChunkSims],
                 bad \in {[at |-> 0, kind |-> "none"]} \cup
                         [at : 1..n, kind : AnomalyKinds] } :
               n \in 0..MaxMatches }

-----------------------------------------------------------------------------
(* The steps of one search request *)

\* lines 130-132 and 299-301: the exception is logged, re-raised and shown
Fail(what) ==
    /\ pc' = "failed"
    /\ error' = what

\* a history that drops its newest entry when it is over the cap: pop()
HistoryWithPopsNewest(history, q) ==
    IF \E i \in 1..Len(history) : history[i] = q
    THEN history
    ELSE LET appended == Append(history, q)
         IN IF Len(appended) > HistoryCap
            THEN SubSeq(appended, 1, Len(appended) - 1)
            ELSE appended

\* a history that appends without looking whether the query is in it
HistoryWithAppendsAlways(history, q) ==
    LET appended == Append(history, q)
    IN IF Len(appended) > HistoryCap THEN Tail(appended) ELSE appended

\* lines 198-201: the query is appended unless it is in the history, and the
\* oldest entry is dropped when there are more than five
HistoryWith(history, q) ==
    IF \E i \in 1..Len(history) : history[i] = q
    THEN history
    ELSE LET appended == Append(history, q)
         IN IF Len(appended) > HistoryCap THEN Tail(appended) ELSE appended

\* lines 197-205: the search button: the history is updated, the request starts
Submit(q, threshold) ==
    /\ pc = "idle"
    /\ query_history' = HistoryWith(query_history, q)
    /\ submitted' = Append(submitted, q)
    /\ query' = q
    /\ chunk_threshold' = threshold
    /\ pc' = "embedding"
    /\ similar_summaries' = <<>>
    /\ similar_chunks' = <<>>
    /\ filtered_chunks' = <<>>
    /\ metadata' = <<>>
    /\ guideline_titles' = <<>>
    /\ response' = ""
    /\ error' = ""
    /\ chunk_rpc' = <<>>
    /\ llm_calls' = <<>>
    /\ log' = <<>>
    /\ displayed' = <<>>
    /\ UNCHANGED <<fo_vars, st_vars>>

\* line 95: embedding_generator.get_embedding(query)
GetEmbedding ==
    /\ pc = "embedding"
    /\ \/ /\ log' = Append(log, "embed")
          /\ pc' = "summaries"
          /\ UNCHANGED error
       \/ /\ log' = Append(log, "embed failed")
          /\ Fail("embeddings.create")
    /\ UNCHANGED <<query_history, submitted, query, chunk_threshold, similar_summaries,
                   similar_chunks, filtered_chunks, metadata, guideline_titles,
                   response, chunk_rpc, llm_calls, displayed>>
    /\ UNCHANGED <<fo_vars, st_vars>>

\* a summary search that answers a failed call with an empty list
SearchSimilarSummariesSwallows ==
    /\ pc = "summaries"
    /\ \/ /\ \E data \in MatchGuidelines(DefaultSummaryThreshold, SummaryLimit) :
                similar_summaries' = data
          /\ log' = Append(log, "match_guidelines")
       \/ /\ similar_summaries' = <<>>
          /\ log' = Append(log, "match_guidelines failed")
    /\ pc' = "chunks"
    /\ UNCHANGED <<query_history, submitted, query, chunk_threshold,
                   similar_chunks, filtered_chunks, metadata, guideline_titles,
                   response, error, chunk_rpc, llm_calls, displayed>>
    /\ UNCHANGED <<fo_vars, st_vars>>

\* lines 98-101 and database.py:13-35: the call is not guarded
SearchSimilarSummaries ==
    /\ pc = "summaries"
    /\ \/ /\ \E data \in MatchGuidelines(DefaultSummaryThreshold, SummaryLimit) :
                similar_summaries' = data
          /\ log' = Append(log, "match_guidelines")
          /\ pc' = "chunks"
          /\ UNCHANGED error
       \/ /\ log' = Append(log, "match_guidelines failed")
          /\ Fail("match_guidelines")
          /\ UNCHANGED similar_summaries
    /\ UNCHANGED <<query_history, submitted, query, chunk_threshold,
                   similar_chunks, filtered_chunks, metadata, guideline_titles,
                   response, chunk_rpc, llm_calls, displayed>>
    /\ UNCHANGED <<fo_vars, st_vars>>

\* a chunk search that lets the exception of a failed call through
SearchSimilarChunksPropagates ==
    /\ pc = "chunks"
    /\ LET table == GuidelineMatchesTable(similar_summaries) IN
       /\ chunk_rpc' = Append(chunk_rpc,
                              [guideline_matches |-> table,
                               chunk_similarity_threshold |-> chunk_threshold,
                               context_size |-> ContextSize])
       /\ \/ /\ \E data \in MatchChunksWithContext(table, chunk_threshold, ContextSize) :
                   similar_chunks' = data
             /\ log' = Append(log, "match_chunks_with_context")
             /\ pc' = "filter"
             /\ UNCHANGED error
          \/ /\ log' = Append(log, "match_chunks_with_context failed")
             /\ Fail("match_chunks_with_context")
             /\ UNCHANGED similar_chunks
    /\ UNCHANGED <<query_history, submitted, query, chunk_threshold, similar_summaries,
                   filtered_chunks, metadata, guideline_titles,
                   response, llm_calls, displayed>>
    /\ UNCHANGED <<fo_vars, st_vars>>

\* lines 104-108 and database.py:37-66: the rpc is sent whatever the matches
\* are; an exception is logged and an empty list returned
SearchSimilarChunks ==
    /\ pc = "chunks"
    /\ LET table == GuidelineMatchesTable(similar_summaries) IN
       /\ chunk_rpc' = Append(chunk_rpc,
                              [guideline_matches |-> table,
                               chunk_similarity_threshold |-> chunk_threshold,
                               context_size |-> ContextSize])
       /\ \/ /\ \E data \in MatchChunksWithContext(table, chunk_threshold, ContextSize) :
                   similar_chunks' = data
             /\ log' = Append(log, "match_chunks_with_context")
          \/ /\ similar_chunks' = <<>>
             /\ log' = Append(log, "match_chunks_with_context failed")
    /\ pc' = "filter"
    /\ UNCHANGED <<query_history, submitted, query, chunk_threshold, similar_summaries,
                   filtered_chunks, metadata, guideline_titles,
                   response, error, llm_calls, displayed>>
    /\ UNCHANGED <<fo_vars, st_vars>>

\* line 111
FilterSimilarChunks ==
    /\ pc = "filter"
    /\ log' = Append(log, "filter")
    /\ IF FilterRaises(similar_chunks)
       THEN /\ Fail("KeyError: 'similarity'")
            /\ UNCHANGED filtered_chunks
       ELSE /\ filtered_chunks' = FilterChunks(similar_chunks, chunk_threshold)
            /\ pc' = "metadata"
            /\ UNCHANGED error
    /\ UNCHANGED <<query_history, submitted, query, chunk_threshold, similar_summaries,
                   similar_chunks, metadata, guideline_titles,
                   response, chunk_rpc, llm_calls, displayed>>
    /\ UNCHANGED <<fo_vars, st_vars>>

\* lines 114-123 and database.py:80-94: one lookup per summary; a lookup
\* returns the row, returns nothing, or raises
GetGuidelineMetadata ==
    /\ pc = "metadata"
    /\ \/ \E found \in SUBSET (1..Len(similar_summaries)) :
            LET kept == SelectSeq([i \in 1..Len(similar_summaries) |-> i],
                                  LAMBDA i : i \in found)
            IN /\ metadata' =
                    [j \in 1..Len(kept) |->
                        MetadataOf(GuidelineRow(similar_summaries[kept[j]].id),
                                   similar_summaries[kept[j]].similarity)]
               /\ guideline_titles' =
                    [d \in {similar_summaries[i].id : i \in found} |->
                        GuidelineRow(d).title]
               /\ log' = Append(log, "get_guideline_metadata")
               /\ pc' = "generate"
               /\ UNCHANGED error
       \/ /\ similar_summaries # <<>>
          /\ log' = Append(log, "get_guideline_metadata failed")
          /\ Fail("guidelines.select")
          /\ UNCHANGED <<metadata, guideline_titles>>
    /\ UNCHANGED <<query_history, submitted, query, chunk_threshold, similar_summaries,
                   similar_chunks, filtered_chunks,
                   response, chunk_rpc, llm_calls, displayed>>
    /\ UNCHANGED <<fo_vars, st_vars>>

\* a generation step that answers without calling the model when there is
\* neither a guideline nor a chunk
GenerateResponseSkipsEmpty ==
    /\ pc = "generate"
    /\ IF BuildContextRaises(filtered_chunks)
       THEN /\ log' = Append(log, "build_context failed")
            /\ Fail("KeyError: 'content'")
            /\ UNCHANGED <<llm_calls, response>>
       ELSE IF filtered_chunks = <<>> /\ metadata = <<>>
       THEN /\ log' = Append(log, "chat.completions")
            /\ response' = "answer"
            /\ pc' = "returned"
            /\ UNCHANGED <<llm_calls, error>>
       ELSE /\ llm_calls' = Append(llm_calls,
                                   [query |-> query,
                                    context |-> BuildContext(filtered_chunks, metadata)])
            /\ \/ /\ log' = Append(log, "chat.completions")
                  /\ response' = "answer"
                  /\ pc' = "returned"
                  /\ UNCHANGED error
               \/ /\ log' = Append(log, "chat.completions failed")
                  /\ Fail("chat.completions")
                  /\ UNCHANGED response
    /\ UNCHANGED <<query_history, submitted, query, chunk_threshold, similar_summaries,
                   similar_chunks, filtered_chunks, metadata, guideline_titles,
                   chunk_rpc, displayed>>
    /\ UNCHANGED <<fo_vars, st_vars>>

\* line 126 and llm.py:9-63
GenerateResponse ==
    /\ pc = "generate"
    /\ IF BuildContextRaises(filtered_chunks)
       THEN /\ log' = Append(log, "build_context failed")
            /\ Fail("KeyError: 'content'")
            /\ UNCHANGED <<llm_calls, response>>
       ELSE /\ llm_calls' = Append(llm_calls,
                                   [query |-> query,
                                    context |-> BuildContext(filtered_chunks, metadata)])
            /\ \/ /\ log' = Append(log, "chat.completions")
                  /\ response' = "answer"
                  /\ pc' = "returned"
                  /\ UNCHANGED error
               \/ /\ log' = Append(log, "chat.completions failed")
                  /\ Fail("chat.completions")
                  /\ UNCHANGED response
    /\ UNCHANGED <<query_history, submitted, query, chunk_threshold, similar_summaries,
                   similar_chunks, filtered_chunks, metadata, guideline_titles,
                   chunk_rpc, displayed>>
    /\ UNCHANGED <<fo_vars, st_vars>>

\* lines 214-297: the answer, the guidelines and the top passages with their
\* stitched context
Render ==
    /\ pc = "returned"
    /\ log' = Append(log, "render")
    /\ LET r == RenderPassages(filtered_chunks, guideline_titles, chunk_threshold) IN
       /\ displayed' = r.shown
       /\ IF r.raised
          THEN Fail("KeyError: 'id'")
          ELSE pc' = "rendered" /\ UNCHANGED error
    /\ UNCHANGED <<query_history, submitted, query, chunk_threshold, similar_summaries,
                   similar_chunks, filtered_chunks, metadata, guideline_titles,
                   response, chunk_rpc, llm_calls>>
    /\ UNCHANGED <<fo_vars, st_vars>>

Init ==
    /\ RequestIdle
    /\ OverlapIdle
    /\ StitchIdle

Next ==
    \/ \E q \in 1..NumQueries, threshold \in ChunkThresholds : Submit(q, threshold)
    \/ GetEmbedding
    \/ SearchSimilarSummaries
    \/ SearchSimilarChunks
    \/ FilterSimilarChunks
    \/ GetGuidelineMetadata
    \/ GenerateResponse
    \/ Render

Spec == Init /\ [][Next]_vars

-----------------------------------------------------------------------------
(* Specification of a session: searches submitted one after another, against
   a store in which no guideline matches the query *)

NumSessionQueries == 6
MaxSubmissions == 7

\* the run of the script ends (after the rendering, or at the return of line
\* 301) and the page waits for the next press of the search button;
\* st.session_state is kept
Rerun ==
    /\ pc \in {"rendered", "failed"}
    /\ pc' = "idle"
    /\ UNCHANGED <<query_history, submitted, query, chunk_threshold, similar_summaries,
                   similar_chunks, filtered_chunks, metadata, guideline_titles,
                   response, error, chunk_rpc, llm_calls, log, displayed>>
    /\ UNCHANGED <<fo_vars, st_vars>>

\* the queries are numbered in the order of their first submission: a query
\* submitted in the session before, or the next new one
SessionQueries ==
    1..Min(Cardinality({submitted[i] : i \in 1..Len(submitted)}) + 1,
           NumSessionQueries)

SessionSubmit ==
    /\ Len(submitted) < MaxSubmissions
    /\ \E q \in SessionQueries : Submit(q, DefaultChunkThreshold)

\* stage 1 against a store without matching guideline
SessionSearchSimilarSummaries ==
    /\ SearchSimilarSummaries
    /\ similar_summaries' = <<>>

NextSession ==
    \/ SessionSubmit
    \/ GetEmbedding
    \/ SessionSearchSimilarSummaries
    \/ SearchSimilarChunks
    \/ FilterSimilarChunks
    \/ GetGuidelineMetadata
    \/ GenerateResponse
    \/ Render
    \/ Rerun

SpecSession == Init /\ [][NextSession]_vars

-----------------------------------------------------------------------------
(* Specification of find_overlap on bounded inputs *)

InitOverlap ==
    /\ text1 \in Strings
    /\ text2 \in Strings
    /\ min_length \in 1..MaxMinLength
    /\ overlap = <<>>
    /\ fo_pc = "call"
    /\ StitchIdle
    /\ RequestIdle

CallFindOverlap ==
    /\ fo_pc = "call"
    /\ overlap' = FindOverlap(text1, text2, min_length)
    /\ fo_pc' = "returned"
    /\ UNCHANGED <<text1, text2, min_length>>
    /\ UNCHANGED <<st_vars, rq_vars>>

NextOverlap == CallFindOverlap

SpecOverlap == InitOverlap /\ [][NextOverlap]_vars

-----------------------------------------------------------------------------
(* Specification of the ranking on bounded inputs: the request from the point
   where search_similar_chunks has returned (src/app.py:108), for every list
   of up to MaxRanked chunk matches of one document *)

MaxRanked == 6

\* similarities and slider values, in hundredths
RankSims == {30, 50, 90}
RankThresholds == {40, 50}

\* the one document stage 1 returned
RankSummaries == <<[id |-> 1, similarity |-> 80]>>

\* chunk k of that document as a match with similarity s, with its neighbours
\* (the later one first)
RankMatch(k, s) ==
    [id |-> k, guideline_id |-> 1, content |-> ChunkContent(CorpusDoc(1), k),
     similarity |-> s,
     context_chunks |->
        LET lo == IF k > ContextSize THEN k - ContextSize ELSE 1
            hi == k + ContextSize
        IN [i \in 1..(hi - lo + 1) |->
              [chunk_id |-> hi + 1 - i,
               content |-> ChunkContent(CorpusDoc(1), hi + 1 - i)]]]

\* the responses of the store: the first n chunks, any similarities
RankedResponses ==
    UNION { { [i \in 1..n |-> RankMatch(i, sims[i])] : sims \in [1..n -> RankSims] } :
            n \in 0..MaxRanked }

InitRank ==
    /\ pc = "filter"
    /\ query = 1
    /\ query_history = <<1>>
    /\ submitted = <<1>>
    /\ chunk_threshold \in RankThresholds
    /\ similar_summaries = RankSummaries
    /\ similar_chunks \in RankedResponses
    /\ filtered_chunks = <<>>
    /\ metadata = <<>>
    /\ guideline_titles = <<>>
    /\ response = ""
    /\ error = ""
    /\ chunk_rpc = <<[guideline_matches |-> GuidelineMatchesTable(similar_summaries),
                      chunk_similarity_threshold |-> chunk_threshold,
                      context_size |-> ContextSize]>>
    /\ llm_calls = <<>>
    /\ log = <<"embed", "match_guidelines", "match_chunks_with_context">>
    /\ displayed = <<>>
    /\ OverlapIdle
    /\ StitchIdle

NextRank ==
    \/ FilterSimilarChunks
    \/ GetGuidelineMetadata
    \/ GenerateResponse
    \/ Render

SpecRank == InitRank /\ [][NextRank]_vars

-----------------------------------------------------------------------------
(* Claims *)

EndsWith(a, r) ==
    /\ Len(r) <= Len(a)
    /\ \A i \in 1..Len(r) : a[Len(a) - Len(r) + i] = r[i]

StartsWith(b, r) ==
    /\ Len(r) <= Len(b)
    /\ \A i \in 1..Len(r) : b[i] = r[i]

\* the lengths n >= k at which the last n characters of a are the first n of b
OverlapLengths(a, b, k) ==
    {n \in k..Min(Len(a), Len(b)) :
        \A i \in 1..n : a[Len(a) - n + i] = b[i]}

\* C1: for min_length k >= 1, find_overlap(A, B, k) returns the longest r with
\* len(r) >= k such that A ends with r and B starts with r, and returns the
\* empty string exactly when there is no such r (in particular when A or B is
\* shorter than k).
C1_FindOverlapLongest ==
    fo_pc = "returned" =>
        LET valid == OverlapLengths(text1, text2, min_length) IN
        /\ (overlap = <<>>) <=> (valid = {})
        /\ overlap # <<>> =>
            /\ Len(overlap) >= min_length
            /\ EndsWith(text1, overlap)
            /\ StartsWith(text2, overlap)
            /\ \A n \in valid : n <= Len(overlap)
        /\ (Len(text1) < min_length \/ Len(text2) < min_length) => overlap = <<>>

\* an overlap of exactly min_length characters is found although a longer
\* candidate length was tried and rejected first
C1_Witness ==
    /\ fo_pc = "returned"
    /\ Len(overlap) = min_length
    /\ min_length >= 2
    /\ Min(Len(text1), Len(text2)) > min_length

-----------------------------------------------------------------------------
(* Claims about the stitching loop, under SpecStitch *)

\* the texts of the paragraphs of combined_text, joined
RECURSIVE JoinTexts(_, _)
JoinTexts(paragraphs, n) ==
    IF n = 0 THEN <<>>
    ELSE JoinTexts(paragraphs, n - 1) \o paragraphs[n].text

IndexPermutations(n) ==
    {p \in [1..n -> 1..n] : \A i, j \in 1..n : i # j => p[i] # p[j]}

\* the arrangement of the contexts in ascending chunk_id order
Ascending(contexts) ==
    LET n == Len(contexts)
        p == CHOOSE q \in IndexPermutations(n) :
                \A i, j \in 1..n :
                    i < j => contexts[q[i]].chunk_id < contexts[q[j]].chunk_id
    IN [i \in 1..n |-> contexts[p[i]]]

HasAnchor == \E i \in 1..Len(context_chunks) : context_chunks[i].chunk_id = chunk.id

\* C3: when context_chunks holds an entry whose chunk_id is the matched chunk's
\* id, the stitched output holds a paragraph whose text is that entry's whole
\* content, whatever overlaps it has with its neighbours.
C3_AnchorVerbatim ==
    st_pc = "shown" =>
        \A i \in 1..Len(context_chunks) :
            context_chunks[i].chunk_id = chunk.id =>
                \E j \in 1..Len(combined_text) :
                    combined_text[j] = Paragraph(context_chunks[i].content)

\* the anchor lies between two neighbours and overlaps both of them, and
\* both neighbours were stripped
C3_Witness ==
    /\ st_pc = "shown"
    /\ Len(combined_text) = 3
    /\ combined_text[2].text = chunk.content
    /\ Len(combined_text[1].text) < WinLen
    /\ Len(combined_text[3].text) < WinLen
    /\ FindOverlap(SortedContexts(context_chunks)[1].content, chunk.content,
                   DefaultMinLength) # <<>>

\* the sorted windows are consecutive chunks of the document, and the
\* WinLen - stride >= min_length characters each pair shares at its boundary
\* are the pair's longest overlap
ConsecutiveWindows ==
    LET sorted == Ascending(context_chunks) IN
    /\ Len(sorted) >= 1
    /\ WinLen - doc.stride >= DefaultMinLength
    /\ \A i \in 1..(Len(sorted) - 1) :
          /\ sorted[i + 1].chunk_id = sorted[i].chunk_id + 1
          /\ Len(FindOverlap(sorted[i].content, sorted[i + 1].content,
                             DefaultMinLength)) = WinLen - doc.stride

\* the part of the document the consecutive windows cover
UnderlyingText ==
    LET sorted == Ascending(context_chunks)
        first == sorted[1].chunk_id
        last == sorted[Len(sorted)].chunk_id
    IN [j \in 1..((last - first) * doc.stride + WinLen) |->
            DocChar(doc, (first - 1) * doc.stride + j)]

\* C4: for position-ordered windows cut from one text (the matched chunk among
\* them), each consecutive pair overlapping by at least min_length, the
\* stitched window texts joined are the underlying text: every boundary
\* overlap appears exactly once.
C4_StitchReconstructs ==
    (st_pc = "shown" /\ HasAnchor /\ ConsecutiveWindows) =>
        JoinTexts(combined_text, Len(combined_text)) = UnderlyingText

\* C5: the stitched output is the same for every arrival order of the same
\* context_chunks, and its windows are in ascending chunk_id order.
C5_OrderIndependent ==
    st_pc = "shown" =>
        /\ combined_text = StitchSorted(Ascending(context_chunks), chunk.id)
        /\ \A p \in IndexPermutations(Len(context_chunks)) :
              Stitch([i \in 1..Len(context_chunks) |-> context_chunks[p[i]]],
                     chunk.id) = combined_text

\* three overlapping windows arrived in descending order and were stitched
C5_Witness ==
    /\ st_pc = "shown"
    /\ Len(context_chunks) = 3
    /\ context_chunks[1].chunk_id > context_chunks[2].chunk_id
    /\ context_chunks[2].chunk_id > context_chunks[3].chunk_id
    /\ \E i \in 1..3 : Len(combined_text[i].text) < WinLen

-----------------------------------------------------------------------------
(* Claims about one search request, under Spec *)

Logged(event) == \E i \in 1..Len(log) : log[i] = event

IdsOf(matches) == {matches[i].id : i \in 1..Len(matches)}

\* stage 1 has returned its list
Stage1Returned == Logged("match_guidelines")

\* C2: when stage 1 returns no document, the stage-2 query is never sent to
\* the store for that request and the chunk result is empty.
C2_EmptyScopeSkipsStage2 ==
    (Stage1Returned /\ similar_summaries = <<>>) =>
        (chunk_rpc = <<>> /\ similar_chunks = <<>>)

\* C6: a failed stage-1 call fails the request: it is not turned into an
\* empty result, and neither the stage-2 query nor the generation call is made.
C6_SummaryFailurePropagates ==
    Logged("match_guidelines failed") =>
        /\ pc = "failed"
        /\ error = "match_guidelines"
        /\ chunk_rpc = <<>>
        /\ llm_calls = <<>>
        /\ response = ""
        /\ displayed = <<>>

\* the embedding was made, the stage-1 call failed and the request is failed
C6_Witness ==
    /\ Logged("match_guidelines failed")
    /\ pc = "failed"
    /\ Logged("embed")

\* C7: a failed stage-2 call gives an empty chunk list and raises nothing: the
\* request goes on, only a later metadata lookup or the generation call can
\* still fail it, and the generation call is made with the metadata of the
\* stage-1 documents and no chunk.
C7_ChunkFailureDegrades ==
    Logged("match_chunks_with_context failed") =>
        /\ similar_chunks = <<>>
        /\ filtered_chunks = <<>>
        /\ pc = "failed" => error \in {"guidelines.select", "chat.completions"}
        /\ pc \in {"returned", "rendered"} => Len(llm_calls) = 1
        /\ \A k \in 1..Len(llm_calls) :
              LET context == llm_calls[k].context IN
              /\ context.sections = <<>>
              /\ Len(context.guidelines) = Len(metadata)
              /\ \A i \in 1..Len(metadata) :
                    /\ context.guidelines[i].title = metadata[i].title
                    /\ \E j \in 1..Len(similar_summaries) :
                          /\ metadata[i].title = DocTitles[similar_summaries[j].id]
                          /\ metadata[i].similarity = similar_summaries[j].similarity

\* stage 2 failed, both stage-1 documents reached the generation call, and
\* the request was rendered
C7_Witness ==
    /\ Logged("match_chunks_with_context failed")
    /\ pc = "rendered"
    /\ Len(similar_summaries) = 2
    /\ Len(llm_calls) = 1
    /\ Len(llm_calls[1].context.guidelines) = 2
    /\ response = "answer"

Malformed(c) == ~Has(c, "id") \/ ~Has(c, "similarity") \/ ~Has(c, "content")

WellFormed(chunks) == SelectSeq(chunks, LAMBDA c : ~Malformed(c))

\* C8: when a returned chunk match lacks id, similarity or content, only that
\* record is dropped: the request does not fail because of it, and the
\* well-formed matches are filtered and passed on.
C8_MalformedMatchDropped ==
    (\E i \in 1..Len(similar_chunks) : Malformed(similar_chunks[i])) =>
        /\ pc = "failed" => error \in {"guidelines.select", "chat.completions"}
        /\ pc \in {"metadata", "generate", "returned", "rendered"} =>
              filtered_chunks =
                  SelectSeq(WellFormed(similar_chunks),
                            LAMBDA c : c.similarity >= chunk_threshold)

FilterDone == pc \in {"metadata", "generate", "returned", "rendered"}

\* C9: every chunk handed to the generation call and every passage displayed
\* has similarity >= chunk_threshold, whatever the store returned, and a chunk
\* whose similarity equals the threshold is kept.
C9_ThresholdAuthoritative ==
    /\ \A i \in 1..Len(filtered_chunks) :
          filtered_chunks[i].similarity >= chunk_threshold
    /\ \A k \in 1..Len(llm_calls) :
          /\ Len(llm_calls[k].context.sections) = Len(filtered_chunks)
          /\ \A i \in 1..Len(filtered_chunks) :
                llm_calls[k].context.sections[i] = filtered_chunks[i].content
    /\ \A i \in 1..Len(displayed) : displayed[i].similarity >= chunk_threshold
    /\ FilterDone =>
          \A i \in 1..Len(similar_chunks) :
              similar_chunks[i].similarity = chunk_threshold =>
                  \E j \in 1..Len(filtered_chunks) :
                      filtered_chunks[j] = similar_chunks[i]
    /\ (pc = "rendered" /\ Len(filtered_chunks) <= TopN) =>
          \A i \in 1..Len(filtered_chunks) :
              filtered_chunks[i].similarity = chunk_threshold =>
                  \E j \in 1..Len(displayed) :
                      /\ displayed[j].similarity = chunk_threshold
                      /\ displayed[j].content = filtered_chunks[i].content

\* the store returned a match below the threshold and one at the threshold;
\* the first was dropped, the second handed on and displayed
C9_Witness ==
    /\ pc = "rendered"
    /\ \E i \in 1..Len(similar_chunks) : similar_chunks[i].similarity < chunk_threshold
    /\ Len(filtered_chunks) = 1
    /\ filtered_chunks[1].similarity = chunk_threshold
    /\ Len(displayed) = 1
    /\ Len(llm_calls) = 1

\* C10: the scope sent with the stage-2 query is exactly the set of document
\* ids stage 1 returned, and every chunk match of the request belongs to a
\* document of that set.
C10_ChunkScope ==
    /\ \A k \in 1..Len(chunk_rpc) :
          IdsOf(chunk_rpc[k].guideline_matches) = IdsOf(similar_summaries)
    /\ \A i \in 1..Len(similar_chunks) :
          similar_chunks[i].guideline_id \in IdsOf(similar_summaries)
    /\ \A i \in 1..Len(filtered_chunks) :
          filtered_chunks[i].guideline_id \in IdsOf(similar_summaries)

\* stage 1 returned two of the three documents, and stage 2 a match in each
C10_Witness ==
    /\ pc = "rendered"
    /\ IdsOf(similar_summaries) = {1, 2}
    /\ Len(similar_chunks) = 2
    /\ similar_chunks[1].guideline_id # similar_chunks[2].guideline_id
    /\ Len(displayed) = 2

\* C15: when stage 1 returns no document the request is not an error: the
\* chunk list, the metadata and the titles are empty, nothing but the
\* generation call itself can still fail the request, a request that returned
\* has made exactly one generation call, and the context of that call holds
\* no guideline entry and no section.
C15_NoDocumentsStillGenerates ==
    (Stage1Returned /\ similar_summaries = <<>>) =>
        /\ similar_chunks = <<>>
        /\ filtered_chunks = <<>>
        /\ metadata = <<>>
        /\ guideline_titles = <<>>
        /\ pc = "failed" => error = "chat.completions"
        /\ pc \in {"returned", "rendered"} =>
              /\ Len(llm_calls) = 1
              /\ response = "answer"
        /\ \A k \in 1..Len(llm_calls) :
              /\ llm_calls[k].query = query
              /\ llm_calls[k].context = [guidelines |-> <<>>, sections |-> <<>>]
        /\ pc = "rendered" => displayed = <<>>

\* stage 1 returned no document, the stage-2 call returned, and the request
\* was answered and rendered
C15_Witness ==
    /\ Stage1Returned
    /\ similar_summaries = <<>>
    /\ Logged("match_chunks_with_context")
    /\ pc = "rendered"
    /\ Len(llm_calls) = 1
    /\ response = "answer"

\* chunk['context_chunks'] is missing or empty
WithoutContext(c) == ~Has(c, "context_chunks") \/ c.context_chunks = <<>>

\* C16: when a chunk to display has no or an empty context_chunks, its
\* passage is displayed with "no context available", nothing is raised, and
\* the other passages of the response are displayed with their stitched
\* context.
C16_NoContextContinues ==
    (Logged("render") /\ \E i \in 1..Len(filtered_chunks) : WithoutContext(filtered_chunks[i])) =>
        /\ pc = "rendered"
        /\ error = ""
        /\ Len(displayed) = Min(TopN, Len(filtered_chunks))
        /\ \A i \in 1..Len(filtered_chunks) :
              \E j \in 1..Len(displayed) :
                  /\ displayed[j].content = filtered_chunks[i].content
                  /\ displayed[j].context =
                        IF WithoutContext(filtered_chunks[i])
                        THEN NoContext
                        ELSE ContextShown(Stitch(filtered_chunks[i].context_chunks,
                                                 filtered_chunks[i].id))

\* the first passage has no context and the passage after it was displayed
\* with its stitched context
C16_Witness ==
    /\ pc = "rendered"
    /\ Len(displayed) = 2
    /\ displayed[1].context = NoContext
    /\ displayed[2].context.kind = "context"
    /\ Len(displayed[2].context.combined_text) >= 2
    /\ \E i \in 1..Len(filtered_chunks) : ~Has(filtered_chunks[i], "context_chunks")

\* event a is in the log in front of every occurrence of event b
LoggedBefore(a, b) ==
    \A j \in 1..Len(log) : log[j] = b => \E i \in 1..(j - 1) : log[i] = a

\* the generation service has been invoked
GenerationInvoked == Logged("chat.completions") \/ Logged("chat.completions failed")

\* C17: the steps of a request occur in the order embed, stage-1 search,
\* stage-2 search, rank/filter, stitch, assemble, generate: the stage-2 query
\* is sent only after stage 1 has returned, and the generation service is
\* invoked only after the threshold filter and after the ranking and the
\* per-passage stitching (the rendering step) have been done.
C17_PipelineOrder ==
    /\ chunk_rpc # <<>> => (Logged("embed") /\ Stage1Returned)
    /\ LoggedBefore("embed", "match_guidelines")
    /\ LoggedBefore("match_guidelines", "match_chunks_with_context")
    /\ LoggedBefore("match_guidelines", "match_chunks_with_context failed")
    /\ Logged("filter") =>
          (Logged("match_chunks_with_context") \/ Logged("match_chunks_with_context failed"))
    /\ GenerationInvoked => Logged("filter")
    /\ llm_calls # <<>> => GenerationInvoked
    /\ GenerationInvoked => Logged("render")

-----------------------------------------------------------------------------
(* Claims about ranking and context assembly, under SpecRank *)

\* rank_and_filter: the threshold filter of line 111, the descending stable
\* sort of line 230 and the truncation of line 233
RankAndFilter(chunks, threshold) ==
    LET sorted_chunks == SortedChunks(FilterChunks(chunks, threshold))
    IN SubSeq(sorted_chunks, 1, Min(TopN, Len(sorted_chunks)))

ContentsOf(chunks) == [i \in 1..Len(chunks) |-> chunks[i].content]

\* every metadata lookup of the request found its row
AllMetadataFound == Len(metadata) = Len(similar_summaries)

\* C11: the generation call's context holds one title/version/adopted-date
\* entry per summary match (each lookup having found its row), followed by the
\* contents of the rank_and_filter output: at most top_n = 5 chunks, in
\* descending order of similarity.
C11_ContextIsRankedTopN ==
    AllMetadataFound =>
        \A k \in 1..Len(llm_calls) :
            LET context == llm_calls[k].context IN
            /\ Len(context.guidelines) = Len(similar_summaries)
            /\ Len(context.sections) <= TopN
            /\ \A i, j \in 1..Len(context.sections) :
                  i < j => \E a, b \in 1..Len(similar_chunks) :
                              /\ similar_chunks[a].content = context.sections[i]
                              /\ similar_chunks[b].content = context.sections[j]
                              /\ similar_chunks[a].similarity >= similar_chunks[b].similarity
            /\ context.sections =
                  ContentsOf(RankAndFilter(similar_chunks, chunk_threshold))

\* the place in the store's response of the match a passage displays
RetrievalIndex(passage) ==
    CHOOSE i \in 1..Len(similar_chunks) : similar_chunks[i].content = passage.content

SimilaritiesOf(chunks) == [i \in 1..Len(chunks) |-> chunks[i].similarity]

\* C12: the displayed passages are in descending order of similarity, and two
\* passages of equal similarity are in the order the store returned them; for
\* similarities [0.9, 0.3, 0.9, 0.5] and threshold 0.4 the passages are the
\* first, the third and the fourth match.
C12_DisplayedStableDescending ==
    pc = "rendered" =>
        /\ \A j, k \in 1..Len(displayed) :
              j < k =>
                 /\ displayed[j].similarity >= displayed[k].similarity
                 /\ displayed[j].similarity = displayed[k].similarity =>
                       RetrievalIndex(displayed[j]) < RetrievalIndex(displayed[k])
        /\ (SimilaritiesOf(similar_chunks) = <<90, 30, 90, 50>> /\ chunk_threshold = 40) =>
              [i \in 1..Len(displayed) |-> displayed[i].content] =
                  <<similar_chunks[1].content, similar_chunks[3].content,
                    similar_chunks[4].content>>

\* the example of the claim has been rendered
C12_Witness ==
    /\ pc = "rendered"
    /\ SimilaritiesOf(similar_chunks) = <<90, 30, 90, 50>>
    /\ chunk_threshold = 40
    /\ Len(displayed) = 3
    /\ displayed[1].similarity = displayed[2].similarity

\* the matches of the store's response at or above the threshold
Qualifying ==
    {i \in 1..Len(similar_chunks) : similar_chunks[i].similarity >= chunk_threshold}

\* the matches a passage is displayed for
Shown ==
    {i \in 1..Len(similar_chunks) :
        \E j \in 1..Len(displayed) : displayed[j].content = similar_chunks[i].content}

\* C13: with q matches at or above the threshold, exactly min(q, 5) passages
\* are displayed, each for a different qualifying match, and no qualifying
\* match left out has a strictly higher similarity than a displayed one.
C13_TopFiveHighest ==
    pc = "rendered" =>
        /\ Len(displayed) = Min(Cardinality(Qualifying), TopN)
        /\ Cardinality(Shown) = Len(displayed)
        /\ Shown \subseteq Qualifying
        /\ \A i \in Qualifying \ Shown :
              \A j \in 1..Len(displayed) :
                  similar_chunks[i].similarity <= displayed[j].similarity

\* six matches qualify, the one of highest similarity was returned last, and
\* it is displayed while a lower one is left out
C13_Witness ==
    /\ pc = "rendered"
    /\ Cardinality(Qualifying) = 6
    /\ Len(displayed) = TopN
    /\ similar_chunks[6].similarity = 90
    /\ \A i \in 1..5 : similar_chunks[i].similarity = 50
    /\ 6 \in Shown

\* C14: filtering and ranking are idempotent: the displayed passages are those
\* of the rank_and_filter output, and the threshold filter, the descending
\* stable sort and the top-5 truncation applied to that output with the same
\* threshold give the same chunks and the same passages.
C14_RankAndFilterIdempotent ==
    pc = "rendered" =>
        LET once == RankAndFilter(similar_chunks, chunk_threshold) IN
        /\ [i \in 1..Len(displayed) |-> displayed[i].content] = ContentsOf(once)
        /\ RankAndFilter(once, chunk_threshold) = once
        /\ RenderPassages(FilterChunks(once, chunk_threshold), guideline_titles,
                          chunk_threshold).shown = displayed

\* the ranking changed its input: a match below the threshold was dropped,
\* the others were reordered, and two displayed passages tie
C14_Witness ==
    /\ pc = "rendered"
    /\ Len(similar_chunks) = MaxRanked
    /\ \E i \in 1..Len(similar_chunks) : similar_chunks[i].similarity < chunk_threshold
    /\ Len(displayed) >= 3
    /\ displayed[1].similarity > displayed[2].similarity
    /\ displayed[2].similarity = displayed[3].similarity
    /\ displayed[1].content # similar_chunks[1].content

-----------------------------------------------------------------------------
(* Claims about the recent-query history, under SpecSession *)

InHistory(history, q) == \E i \in 1..Len(history) : history[i] = q

\* the step is a press of the search button
Submitted == Len(submitted') = Len(submitted) + 1

\* the query the step submits
SubmittedQuery == submitted'[Len(submitted')]

\* the place of the first submission of query q
FirstSubmission(q) ==
    CHOOSE k \in 1..Len(submitted) :
        /\ submitted[k] = q
        /\ \A m \in 1..(k - 1) : submitted[m] # q

\* the history lists its queries in the order of their first submission
OrderedByFirstSubmission ==
    \A i, j \in 1..Len(query_history) :
        i < j => FirstSubmission(query_history[i]) < FirstSubmission(query_history[j])

\* the entries of history from the i-th on occur in that order among the
\* entries of s from the j-th on
RECURSIVE OccursInOrder(_, _, _, _)
OccursInOrder(history, i, s, j) ==
    IF i > Len(history) THEN TRUE
    ELSE IF j > Len(s) THEN FALSE
    ELSE IF history[i] = s[j] THEN OccursInOrder(history, i + 1, s, j + 1)
    ELSE OccursInOrder(history, i, s, j + 1)

\* a step keeps the cap, and a submission of a query that is not in the
\* history appends it, evicting the oldest entry of a full history
FifoWithCap ==
    /\ Len(query_history') <= HistoryCap
    /\ (Submitted /\ ~InHistory(query_history, SubmittedQuery)) =>
          query_history' =
              IF Len(query_history) = HistoryCap
              THEN Append(Tail(query_history), SubmittedQuery)
              ELSE Append(query_history, SubmittedQuery)

\* C18: the history holds at most 5 entries and is FIFO with a cap: a new
\* query added to a full history evicts the oldest entry, and the entries
\* are in the order of their first submission.
C18_HistoryFifoFirstSubmission ==
    [][FifoWithCap /\ OrderedByFirstSubmission']_vars

\* C18 as amended: the history holds at most 5 entries and is FIFO with a cap:
\* a new query added to a full history evicts the oldest entry, the surviving
\* entries keep their relative order, and the entries are in the order in
\* which they were added to the history: they occur in that order among the
\* submissions, the newest entry at a submission of its own.
C18_HistoryFifoByInsertion ==
    [][/\ FifoWithCap
       /\ OccursInOrder(query_history', 1, submitted', 1)
       /\ Submitted =>
             (InHistory(query_history, SubmittedQuery)
                 \/ query_history'[Len(query_history')] = SubmittedQuery)]_vars

\* the first query was evicted by the sixth and, submitted again, is the
\* newest entry of a full history
C18_Witness ==
    /\ Len(query_history) = HistoryCap
    /\ Len(submitted) = 7
    /\ submitted[7] = submitted[1]
    /\ query_history[HistoryCap] = submitted[1]
    /\ query_history[1] = submitted[3]

NoDuplicates(history) ==
    \A i, j \in 1..Len(history) : i # j => history[i] # history[j]

\* C19: the history never holds a query twice; submitting a query that is in
\* the history leaves the history as it is; the history is updated when the
\* query is submitted, before the search runs (the submitted query is in it
\* from then on), and no step of the search, whether it returns or raises,
\* changes it.
C19_HistoryNoDuplicates ==
    [][/\ NoDuplicates(query_history')
       /\ (Submitted /\ InHistory(query_history, SubmittedQuery)) =>
             query_history' = query_history
       /\ Submitted => InHistory(query_history', SubmittedQuery)
       /\ ~Submitted => query_history' = query_history
       /\ pc' # "idle" => InHistory(query_history', query')]_vars

\* a query of the history was submitted again and its search raised: the
\* history is as it was before
C19_Witness ==
    /\ pc = "failed"
    /\ submitted = <<1, 2, 1>>
    /\ query_history = <<1, 2>>
    /\ query = 1

=============================================================================
